---- MODULE Spec2Model ----
(***************************************************************************)
(* Model of koko-slack-bot's Slack package (internal/slack/slack.go):      *)
(* the change-event Extractor handleGatewaySchemaChangeEvent, and the      *)
(* dispatcher Run / handleMessageEvent / handleBotMessage with the         *)
(* GitHub client's PRDescription (internal/github/github.go).              *)
(*                                                                         *)
(* Go strings that the code only compares or tests for emptiness (bot id,  *)
(* author name, sub-type, channel) are TLA+ strings.  Strings the code     *)
(* takes apart (field titles and values) are sequences of one-character    *)
(* strings, so that ToLower, Split, ParseInt and %d formatting are         *)
(* computed character by character.                                        *)
(***************************************************************************)
EXTENDS Integers, Sequences, FiniteSets, TLC

VARIABLES
    run,            \* position of Run: "created", "looping", "failed", "exited", "crashed"
    botID,          \* Slack.botID
    pc,             \* position of the handler invocation in progress
    ev,             \* the socketmode event being handled
    channelName,    \* handleMessageEvent's local channelName
    calls,          \* collaborator operations invoked for the current event, in order
    logs,           \* log lines written for the current event, in order
    msg,            \* handleGatewaySchemaChangeEvent's argument messageEvent
    idx,            \* number of fields of Attachments[0] the range loop has consumed
    pullRequest,    \* local pullRequest (int64)
    organization,   \* local organization
    repository,     \* local repository
    gsc,            \* the gatewaySchemaChange returned by the Extractor
    err,            \* the error returned by the Extractor
    opts,           \* the Options NewSlack was called with
    newSlack,       \* what NewSlack returned: whether *Slack is non-nil, and the error
    reads,          \* the values of Slack.botID the handler invocations have read
    others          \* handler invocations running beside the one in progress

vars == <<run, botID, pc, ev, channelName, calls, logs,
          msg, idx, pullRequest, organization, repository, gsc, err,
          opts, newSlack, reads, others>>

dispatcherVars == <<run, botID, ev, channelName, calls, logs, opts, newSlack, reads, others>>
extractorLocals == <<idx, pullRequest, organization, repository>>

----
(* Bounds of the model *)

\* longest field sequence of an attachment
MaxFields == 3
\* largest number of attachments of a message
MaxAttachments == 3
\* width in bits of Go's int/int64 in the model (64 in the build; TLC's
\* integers are 32 bits wide, so the width is scaled and every limit below
\* is derived from it)
IntBits == 8
\* largest number of handler invocations running beside the one in progress
MaxOthers == 1

----
(* Characters and strings *)

UpperChars == <<"A","B","C","D","E","F","G","H","I","J","K","L","M",
                "N","O","P","Q","R","S","T","U","V","W","X","Y","Z">>
LowerChars == <<"a","b","c","d","e","f","g","h","i","j","k","l","m",
                "n","o","p","q","r","s","t","u","v","w","x","y","z">>
DigitChars == <<"0","1","2","3","4","5","6","7","8","9">>

IndexOf(c, chars) ==
    IF \E i \in 1..Len(chars) : chars[i] = c
    THEN CHOOSE i \in 1..Len(chars) : chars[i] = c
    ELSE 0

\* strings.ToLower
ToLower(s) ==
    [i \in 1..Len(s) |->
        IF IndexOf(s[i], UpperChars) > 0
        THEN LowerChars[IndexOf(s[i], UpperChars)]
        ELSE s[i]]

\* strings.Split(s, sep) for a one-character separator: the substrings
\* between the separators, so n separators give n+1 tokens and "" gives [""]
RECURSIVE SplitFrom(_, _, _, _)
SplitFrom(s, sep, cur, acc) ==
    IF s = <<>> THEN Append(acc, cur)
    ELSE IF Head(s) = sep
         THEN SplitFrom(Tail(s), sep, <<>>, Append(acc, cur))
         ELSE SplitFrom(Tail(s), sep, Append(cur, Head(s)), acc)

Split(s, sep) == SplitFrom(s, sep, <<>>, <<>>)

\* limits of the machine integer
MaxUint == 2^IntBits - 1
MaxInt64 == 2^(IntBits - 1) - 1
MinInt64 == -(2^(IntBits - 1))

\* strconv.ParseUint(s, 10, bitSize): "" and any non-digit are syntax errors,
\* a value above the unsigned maximum is a range error, reported at the digit
\* that overflows
RECURSIVE ParseUintFrom(_, _)
ParseUintFrom(s, n) ==
    IF s = <<>> THEN [err |-> "nil", n |-> n]
    ELSE IF IndexOf(Head(s), DigitChars) = 0 THEN [err |-> "syntax", n |-> 0]
    ELSE LET d == IndexOf(Head(s), DigitChars) - 1
         IN IF n * 10 + d > MaxUint
            THEN [err |-> "range", n |-> MaxUint]
            ELSE ParseUintFrom(Tail(s), n * 10 + d)

ParseUint(s) ==
    IF s = <<>> THEN [err |-> "syntax", n |-> 0] ELSE ParseUintFrom(s, 0)

\* strconv.ParseInt(s, 10, 0): optional sign, then ParseUint, then the range
\* check against the signed limits
ParseInt(s) ==
    IF s = <<>> THEN [err |-> "syntax", n |-> 0]
    ELSE LET neg == Head(s) = "-"
             body == IF Head(s) \in {"+", "-"} THEN Tail(s) ELSE s
             un == ParseUint(body)
             cutoff == 2^(IntBits - 1)
         IN IF un.err # "nil" THEN [err |-> un.err, n |-> 0]
            ELSE IF ~neg /\ un.n >= cutoff THEN [err |-> "range", n |-> cutoff - 1]
            ELSE IF neg /\ un.n > cutoff THEN [err |-> "range", n |-> -cutoff]
            ELSE [err |-> "nil", n |-> IF neg THEN -un.n ELSE un.n]

\* the conversion int(pullRequest): int64 to int keeps the low bits
IntOf(n) == ((n + 2^(IntBits - 1)) % 2^IntBits) - 2^(IntBits - 1)

\* the %d verb of fmt.Errorf: decimal digits, "-" for a negative number
RECURSIVE FormatNat(_)
FormatNat(n) ==
    IF n < 10 THEN <<DigitChars[n + 1]>>
    ELSE Append(FormatNat(n \div 10), DigitChars[(n % 10) + 1])

FormatInt(n) == IF n < 0 THEN <<"-">> \o FormatNat(-n) ELSE FormatNat(n)

----
(* Errors: the format string of errors.New / fmt.Errorf and its formatted   *)
(* argument                                                                *)

nil == [text |-> "nil", arg |-> <<>>]
Error(text, arg) == [text |-> text, arg |-> arg]

MissingBotID == Error("bot ID is missing from message event", <<>>)
MissingAttachments == Error("attachments are missing from message event", <<>>)
TooManyAttachments(n) == Error("too many attachments from message event: %d > 1", FormatInt(n))
MissingAuthor == Error("gateway change event is missing author", <<>>)
RefTokenCountError(k) ==
    Error("not enough tokens in ref value to parse pull request: %d < 3", FormatInt(k))
PullRequestParseError(token) == Error("unable to convert pull request to number: %s", token)
CommitFormatError(value) == Error("invalid commit value format: %s", value)
CommitTokenCountError(k) ==
    Error("not enough tokens in commit value to parse repository: %d < 5", FormatInt(k))
MissingPullRequest == Error("pull request number was not present in message event", <<>>)
MissingOrganization == Error("organization was not present in message event", <<>>)
MissingRepository == Error("repository was not present in message event", <<>>)

\* gatewaySchemaChange{}: the zero value of the result record
ZeroGSC == [organization |-> <<>>, pullRequest |-> 0, repository |-> <<>>]

----
(* Inputs: slackevents.MessageEvent with its slack.Attachment and           *)
(* slack.AttachmentField values                                             *)

RECURSIVE Join(_, _)
Join(tokens, sep) ==
    IF Len(tokens) = 0 THEN <<>>
    ELSE IF Len(tokens) = 1 THEN tokens[1]
    ELSE tokens[1] \o <<sep>> \o Join(Tail(tokens), sep)

Field(title, value) == [title |-> title, value |-> value]

\* path segments used to build field values
Refs == <<"r">>
Pull == <<"p">>
Merge == <<"m">>
Scheme == <<"h", ":">>
Host == <<"g">>
Kong == <<"k">>
Koko == <<"t">>
Sha == <<"c", "5">>

RefFields ==
    { Field(<<"R","e","f">>, Join(<<Refs, Pull, <<"5">>, Merge>>, "/")),
      Field(<<"r","e","f">>, Join(<<Refs, Pull, <<"1","2">>>>, "/")),
      Field(<<"R","E","F">>, Join(<<Refs, Pull>>, "/")),
      Field(<<"R","e","f">>, Join(<<Refs, Pull, <<"5","x">>, Merge>>, "/")),
      Field(<<"r","E","f">>, Join(<<Refs, Pull, FormatInt(MinInt64)>>, "/")) }

CommitFields ==
    { Field(<<"C","o","m","m","i","t">>,
            Join(<<Join(<<Scheme, <<>>, Host, Kong, Koko, <<"c">>, Sha>>, "/"), Sha>>, "|")),
      Field(<<"C","O","M","M","I","T">>,
            Join(<<Join(<<Scheme, <<>>, Host, <<"o">>, <<"u">>>>, "/"), Sha>>, "|")),
      Field(<<"c","o","m","m","i","t">>,
            Join(<<Join(<<Scheme, <<>>, Host, Kong, <<>>>>, "/"), Sha>>, "|")),
      Field(<<"C","o","m","m","i","t">>,
            Join(<<Join(<<Scheme, <<>>, Host, Kong>>, "/"), Sha>>, "|")),
      Field(<<"C","o","m","m","i","t">>,
            Join(<<Scheme, <<>>, Host, Kong, Koko>>, "/")),
      Field(<<"c","o","m","m","i","t">>,
            Join(<<Join(<<Scheme, <<>>, Host, Kong, Koko>>, "/"), Sha, Sha>>, "|")) }

\* a title that is neither ref nor commit, with a value either case rejects
OtherFields ==
    { Field(<<"R","e","f","s">>, Join(<<Refs, Pull>>, "/")) }

Fields == RefFields \cup CommitFields \cup OtherFields

SeqsUpTo(S, n) == UNION { [1..k -> S] : k \in 0..n }

AuthorNames == {"", "team-koko-bot"}
BotIDs == {"", "B0", "B1"}

\* an attachment without an author is rejected before its fields are read:
\* those come with one field fewer
Attachments ==
    [authorName : AuthorNames \ {""}, fields : SeqsUpTo(Fields, MaxFields)]
    \cup [authorName : {""}, fields : SeqsUpTo(Fields, MaxFields - 1)]

\* the attachments that follow the first one of a message: the code reads
\* nothing of them, so a few with malformed content are enough
ExtraAttachments ==
    [authorName : AuthorNames,
     fields : SeqsUpTo({ f \in Fields : f.title \in {<<"R","E","F">>, <<"C","O","M","M","I","T">>} }, 1)]

AttachmentSeqs ==
    {<<>>}
    \cup { <<a>> : a \in Attachments }
    \cup { <<a>> \o rest : a \in ExtraAttachments,
                           rest \in UNION { [1..k -> ExtraAttachments] : k \in 1..(MaxAttachments - 1) } }

\* the message events the unit tests build: only BotID and Attachments set
MessageEvent(subType, bot, channel, user, attachments) ==
    [subType |-> subType, botID |-> bot, channel |-> channel, user |-> user,
     attachments |-> attachments]

Messages ==
    { MessageEvent("", "B1", "", "", as) : as \in AttachmentSeqs }
    \cup { MessageEvent("", "", "", "", as) :
              as \in { bs \in AttachmentSeqs : bs = <<>> \/ Len(bs[1].fields) < MaxFields } }

NoMessage == MessageEvent("", "", "", "", <<>>)
NoEvent == [kind |-> "none", message |-> NoMessage]

----
(* handleGatewaySchemaChangeEvent, one action per validation step           *)
\* Return handing back the locals filled in so far together with an error
ReturnPartial(result, e) ==
    /\ gsc' = IF e = nil THEN result
              ELSE [organization |-> organization,
                    pullRequest |-> IF pullRequest = MinInt64 THEN 0 ELSE pullRequest,
                    repository |-> repository]
    /\ err' = e
    /\ pc' = "x_done"

\* return gatewaySchemaChange{...}, err
Return(result, e) ==
    /\ gsc' = result
    /\ err' = e
    /\ pc' = "x_done"
\* CheckBotID without the test of the bot id
CheckBotIDOmitted ==
    /\ pc = "x_botid"
    /\ logs' = Append(logs, "gateway change event received")
    /\ pc' = "x_attachments"
    /\ UNCHANGED <<gsc, err, msg, extractorLocals, run, botID, ev, channelName, calls, opts, newSlack, reads, others>>

\* lines 248-251: the debug line, then the bot id must be set
CheckBotID ==
    /\ pc = "x_botid"
    /\ logs' = Append(logs, "gateway change event received")
    /\ IF msg.botID = ""
       THEN Return(ZeroGSC, MissingBotID)
       ELSE pc' = "x_attachments" /\ UNCHANGED <<gsc, err>>
    /\ UNCHANGED <<msg, extractorLocals, run, botID, ev, channelName, calls, opts, newSlack, reads, others>>
\* CheckAttachments with the upper limit off by one
CheckAttachmentsOffByOne ==
    /\ pc = "x_attachments"
    /\ LET numOfAttachments == Len(msg.attachments)
       IN IF numOfAttachments = 0 THEN Return(ZeroGSC, MissingAttachments)
          ELSE IF numOfAttachments > 2
               THEN Return(ZeroGSC, TooManyAttachments(numOfAttachments))
               ELSE pc' = "x_author" /\ UNCHANGED <<gsc, err>>
    /\ UNCHANGED <<msg, extractorLocals, dispatcherVars>>

\* lines 252-258: exactly one attachment
CheckAttachments ==
    /\ pc = "x_attachments"
    /\ LET numOfAttachments == Len(msg.attachments)
       IN IF numOfAttachments = 0 THEN Return(ZeroGSC, MissingAttachments)
          ELSE IF numOfAttachments > 1
               THEN Return(ZeroGSC, TooManyAttachments(numOfAttachments))
               ELSE pc' = "x_author" /\ UNCHANGED <<gsc, err>>
    /\ UNCHANGED <<msg, extractorLocals, dispatcherVars>>
\* CheckAuthor without the test of the author
CheckAuthorOmitted ==
    /\ pc = "x_author"
    /\ pc' = "x_scan"
    /\ pullRequest' = MinInt64
    /\ organization' = <<>>
    /\ repository' = <<>>
    /\ UNCHANGED <<idx, gsc, err, msg, dispatcherVars>>

\* lines 260-269: the author of the attachment, then the declaration of the
\* three locals the scan fills in
CheckAuthor ==
    /\ pc = "x_author"
    /\ LET author == msg.attachments[1].authorName
       IN IF author = ""
          THEN Return(ZeroGSC, MissingAuthor) /\ UNCHANGED extractorLocals
          ELSE /\ pc' = "x_scan"
               /\ pullRequest' = MinInt64
               /\ organization' = <<>>
               /\ repository' = <<>>
               /\ UNCHANGED <<idx, gsc, err>>
    /\ UNCHANGED <<msg, dispatcherVars>>
\* RefCase reading the token before the pull request number
RefCaseWrongToken(value) ==
    LET tokens == Split(value, "/")
        numOfTokens == Len(tokens)
    IN IF numOfTokens < 3
       THEN [err |-> RefTokenCountError(numOfTokens), pullRequest |-> 0]
       ELSE LET parsed == ParseInt(tokens[2])
            IN IF parsed.err # "nil"
               THEN [err |-> PullRequestParseError(tokens[2]), pullRequest |-> parsed.n]
               ELSE [err |-> nil, pullRequest |-> parsed.n]

\* lines 273-283, case "ref": the pull request number is token 2 of the value
RefCase(value) ==
    LET tokens == Split(value, "/")
        numOfTokens == Len(tokens)
    IN IF numOfTokens < 3
       THEN [err |-> RefTokenCountError(numOfTokens), pullRequest |-> 0]
       ELSE LET parsed == ParseInt(tokens[3])
            IN IF parsed.err # "nil"
               THEN [err |-> PullRequestParseError(tokens[3]), pullRequest |-> parsed.n]
               ELSE [err |-> nil, pullRequest |-> parsed.n]
\* CommitCase accepting any value with at least one "|"
CommitCaseAtLeastTwo(value) ==
    LET parts == Split(value, "|")
    IN IF Len(parts) < 2
       THEN [err |-> CommitFormatError(value), organization |-> <<>>, repository |-> <<>>]
       ELSE LET tokens == Split(parts[1], "/")
                numOfTokens == Len(tokens)
            IN IF numOfTokens < 5
               THEN [err |-> CommitTokenCountError(numOfTokens),
                     organization |-> <<>>, repository |-> <<>>]
               ELSE [err |-> nil, organization |-> tokens[4], repository |-> tokens[5]]

\* lines 285-297, case "commit": organization and repository are tokens 3 and
\* 4 of the part of the value before "|"
CommitCase(value) ==
    LET parts == Split(value, "|")
    IN IF Len(parts) # 2
       THEN [err |-> CommitFormatError(value), organization |-> <<>>, repository |-> <<>>]
       ELSE LET tokens == Split(parts[1], "/")
                numOfTokens == Len(tokens)
            IN IF numOfTokens < 5
               THEN [err |-> CommitTokenCountError(numOfTokens),
                     organization |-> <<>>, repository |-> <<>>]
               ELSE [err |-> nil, organization |-> tokens[4], repository |-> tokens[5]]

\* ScanField keeping the first value of a repeated ref or commit field
ScanFieldFirstWins ==
    /\ pc = "x_scan"
    /\ idx < Len(msg.attachments[1].fields)
    /\ LET field == msg.attachments[1].fields[idx + 1]
           title == ToLower(field.title)
       IN /\ idx' = idx + 1
          /\ IF title = <<"r","e","f">>
             THEN LET r == RefCase(field.value)
                  IN IF r.err # nil
                     THEN Return(ZeroGSC, r.err) /\ UNCHANGED <<pullRequest, organization, repository>>
                     ELSE /\ pullRequest' = IF pullRequest = MinInt64 THEN r.pullRequest
                                            ELSE pullRequest
                          /\ UNCHANGED <<pc, gsc, err, organization, repository>>
             ELSE IF title = <<"c","o","m","m","i","t">>
             THEN LET c == CommitCase(field.value)
                  IN IF c.err # nil
                     THEN Return(ZeroGSC, c.err) /\ UNCHANGED <<pullRequest, organization, repository>>
                     ELSE /\ organization' = IF organization = <<>> THEN c.organization
                                             ELSE organization
                          /\ repository' = IF repository = <<>> THEN c.repository
                                           ELSE repository
                          /\ UNCHANGED <<pc, gsc, err, pullRequest>>
             ELSE UNCHANGED <<pc, gsc, err, pullRequest, organization, repository>>
    /\ UNCHANGED <<msg, dispatcherVars>>

\* lines 270-299: one iteration of the range loop over Attachments[0].Fields
ScanField ==
    /\ pc = "x_scan"
    /\ idx < Len(msg.attachments[1].fields)
    /\ LET field == msg.attachments[1].fields[idx + 1]
           title == ToLower(field.title)
       IN /\ idx' = idx + 1
          /\ IF title = <<"r","e","f">>
             THEN LET r == RefCase(field.value)
                  IN IF r.err # nil
                     THEN Return(ZeroGSC, r.err) /\ UNCHANGED <<pullRequest, organization, repository>>
                     ELSE /\ pullRequest' = r.pullRequest
                          /\ UNCHANGED <<pc, gsc, err, organization, repository>>
             ELSE IF title = <<"c","o","m","m","i","t">>
             THEN LET c == CommitCase(field.value)
                  IN IF c.err # nil
                     THEN Return(ZeroGSC, c.err) /\ UNCHANGED <<pullRequest, organization, repository>>
                     ELSE /\ organization' = c.organization
                          /\ repository' = c.repository
                          /\ UNCHANGED <<pc, gsc, err, pullRequest>>
             ELSE UNCHANGED <<pc, gsc, err, pullRequest, organization, repository>>
    /\ UNCHANGED <<msg, dispatcherVars>>
\* CheckComplete testing the organization before the pull request
CheckCompleteOrganizationFirst ==
    /\ pc = "x_scan"
    /\ idx = Len(msg.attachments[1].fields)
    /\ IF Len(organization) = 0 THEN Return(ZeroGSC, MissingOrganization)
       ELSE IF pullRequest = MinInt64 THEN Return(ZeroGSC, MissingPullRequest)
       ELSE IF Len(repository) = 0 THEN Return(ZeroGSC, MissingRepository)
       ELSE Return([organization |-> organization,
                    pullRequest |-> IntOf(pullRequest),
                    repository |-> repository], nil)
    /\ UNCHANGED <<msg, extractorLocals, dispatcherVars>>

\* lines 301-316: the three completeness checks and the result
CheckComplete ==
    /\ pc = "x_scan"
    /\ idx = Len(msg.attachments[1].fields)
    /\ IF pullRequest = MinInt64 THEN Return(ZeroGSC, MissingPullRequest)
       ELSE IF Len(organization) = 0 THEN Return(ZeroGSC, MissingOrganization)
       ELSE IF Len(repository) = 0 THEN Return(ZeroGSC, MissingRepository)
       ELSE Return([organization |-> organization,
                    pullRequest |-> IntOf(pullRequest),
                    repository |-> repository], nil)
    /\ UNCHANGED <<msg, extractorLocals, dispatcherVars>>

handleGatewaySchemaChangeEvent ==
    \/ CheckBotID
    \/ CheckAttachments
    \/ CheckAuthor
    \/ ScanField
    \/ CheckComplete

----
(* NewSlack *)

\* the characters strings.TrimSpace removes
WhiteSpace == {" ", "\t", "\n"}

RECURSIVE TrimLeft(_)
TrimLeft(s) ==
    IF s # <<>> /\ Head(s) \in WhiteSpace THEN TrimLeft(Tail(s)) ELSE s

RECURSIVE TrimRight(_)
TrimRight(s) ==
    IF s # <<>> /\ s[Len(s)] \in WhiteSpace THEN TrimRight(SubSeq(s, 1, Len(s) - 1)) ELSE s

\* strings.TrimSpace
TrimSpace(s) == TrimRight(TrimLeft(s))

\* strings.HasPrefix
HasPrefix(s, prefix) ==
    /\ Len(s) >= Len(prefix)
    /\ \A i \in 1..Len(prefix) : s[i] = prefix[i]

AppTokenPrefix == <<"x", "a", "p", "p", "-">>
BotTokenPrefix == <<"x", "o", "x", "b", "-">>

\* the tokens given to NewSlack: empty, blank, each prefix alone and followed
\* by more, a prefix behind a blank, a prefix cut short, neither prefix
Tokens ==
    { <<>>, <<" ">>, <<"\t", " ">>,
      AppTokenPrefix, AppTokenPrefix \o <<"1">>,
      BotTokenPrefix, BotTokenPrefix \o <<"1">>,
      <<" ">> \o AppTokenPrefix, <<" ">> \o BotTokenPrefix,
      <<"x", "a", "p", "p">>, <<"x", "o", "x", "b">>,
      <<"i", "n", "v", "a", "l", "i", "d">> }

\* Options; a pointer field is TRUE when it is not nil
OptionsSet ==
    [AppToken : Tokens, BotToken : Tokens, Debug : BOOLEAN,
     GitHubClient : BOOLEAN, Logger : BOOLEAN]

\* the options of slack_test.go "valid options"
ValidOptions ==
    [AppToken |-> AppTokenPrefix, BotToken |-> BotTokenPrefix, Debug |-> FALSE,
     GitHubClient |-> TRUE, Logger |-> TRUE]

\* NewSlack has not returned
NotReturned == [instance |-> FALSE, err |-> "not returned"]
\* return &Slack{...}, nil
Created == [instance |-> TRUE, err |-> "nil"]
\* return nil, errors.New(text)
Refused(text) == [instance |-> FALSE, err |-> text]

\* NewSlack with the checks of the bot token before those of the application token
NewSlackResultBotTokenFirst(o) ==
    IF Len(TrimSpace(o.BotToken)) = 0
      THEN Refused("slack bot token is not set")
    ELSE IF ~HasPrefix(o.BotToken, BotTokenPrefix)
      THEN Refused("slack bot token must have the prefix 'xoxb-'")
    ELSE IF Len(TrimSpace(o.AppToken)) = 0
      THEN Refused("slack application token is not set")
    ELSE IF ~HasPrefix(o.AppToken, AppTokenPrefix)
      THEN Refused("slack application token must have the prefix 'xapp-'")
    ELSE IF ~o.GitHubClient
      THEN Refused("client for GitHub is not set")
    ELSE IF ~o.Logger
      THEN Refused("logger is not set")
    ELSE Created

\* lines 86-131: what NewSlack(o) returns
NewSlackResult(o) ==
    IF Len(TrimSpace(o.AppToken)) = 0
      THEN Refused("slack application token is not set")
    ELSE IF ~HasPrefix(o.AppToken, AppTokenPrefix)
      THEN Refused("slack application token must have the prefix 'xapp-'")
    ELSE IF Len(TrimSpace(o.BotToken)) = 0
      THEN Refused("slack bot token is not set")
    ELSE IF ~HasPrefix(o.BotToken, BotTokenPrefix)
      THEN Refused("slack bot token must have the prefix 'xoxb-'")
    ELSE IF ~o.GitHubClient
      THEN Refused("client for GitHub is not set")
    ELSE IF ~o.Logger
      THEN Refused("logger is not set")
    ELSE Created

\* the instance's fields before Run, as NewSlack leaves them
Constructed(o) ==
    /\ opts = o
    /\ newSlack = Created
    /\ run = "created"
    /\ botID = ""
    /\ reads = {}
    /\ others = [h \in 1..MaxOthers |-> "none"]

\* the state at the entry of handleGatewaySchemaChangeEvent(m)
EnterExtractor(m) ==
    /\ msg = m
    /\ pc = "x_botid"
    /\ idx = 0
    /\ pullRequest = 0
    /\ organization = <<>>
    /\ repository = <<>>
    /\ gsc = ZeroGSC
    /\ err = nil

\* the unit tests: a Slack made by NewSlack, the Extractor called directly
InitExtract ==
    /\ Constructed(ValidOptions)
    /\ ev = NoEvent
    /\ channelName = ""
    /\ calls = <<>>
    /\ logs = <<>>
    /\ \E m \in Messages : EnterExtractor(m)

NextExtract == handleGatewaySchemaChangeEvent

SpecExtract == InitExtract /\ [][NextExtract]_vars

----
(* Events delivered to the message handler *)

SubTypes == {"", "bot_message", "channel_join"}
ChannelIDs == {"C1", "C2"}

\* the name GetConversationInfo resolves a channel id to
ChannelNameOf(id) == IF id = "C1" THEN "gateway-schema-change-feed" ELSE "general"

\* field sequences of the bot messages delivered as events: nothing, or a
\* field titled Ref alone or followed by one titled Commit
EventFieldSeqs ==
    { fs \in SeqsUpTo(Fields, 2) :
        \/ Len(fs) = 0
        \/ /\ fs[1].title \in {<<"R","e","f">>, <<"r","E","f">>, <<"R","E","F">>}
           /\ Len(fs) = 2 => fs[2].title = <<"C","o","m","m","i","t">> }

EventAttachmentSeqs ==
    {<<>>}
    \cup { <<a>> : a \in [authorName : AuthorNames \ {""}, fields : EventFieldSeqs] }
    \cup { <<a>> : a \in [authorName : {""}, fields : {<<>>}] }
    \cup { <<a, a>> : a \in [authorName : AuthorNames \ {""}, fields : {<<>>}] }

\* attachments of the events that are not bot messages: none, or one with a
\* ref and a commit field
PlainAttachmentSeqs ==
    { as \in EventAttachmentSeqs :
        as = <<>> \/ (Len(as) = 1 /\ Len(as[1].fields) = 2 /\ as[1].fields[1].title = <<"R","e","f">>) }

\* e.Data is not an EventsAPIEvent ("other"), an EventsAPIEvent whose inner
\* event is not a MessageEvent ("api"), or a MessageEvent
Events ==
    { [kind |-> k, message |-> NoMessage] : k \in {"other", "api"} }
    \cup { [kind |-> "message", message |-> MessageEvent("bot_message", b, c, "U1", as)] :
             b \in BotIDs, c \in ChannelIDs, as \in EventAttachmentSeqs }
    \cup { [kind |-> "message", message |-> MessageEvent(st, b, c, "U1", as)] :
             st \in SubTypes \ {"bot_message"}, b \in BotIDs, c \in ChannelIDs,
             as \in PlainAttachmentSeqs }

\* a collaborator operation invoked for the current event
Call(op) == [op |-> op, args |-> ZeroGSC]
CallWith(op, args) == [op |-> op, args |-> args]

----
(* Run *)

\* Run registering the handlers and starting the event loop before it
\* stores the bot id
RunRegisterFirst ==
    \/ /\ run = "created"
       /\ \/ run' = "failed"
          \/ run' = "looping"
       /\ UNCHANGED <<botID, pc, ev, channelName, calls, logs, msg, extractorLocals, gsc, err,
                      opts, newSlack, reads, others>>
    \/ /\ run = "looping"
       /\ botID = ""
       /\ \E id \in BotIDs \ {""} : botID' = id
       /\ UNCHANGED <<run, pc, ev, channelName, calls, logs, msg, extractorLocals, gsc, err,
                      opts, newSlack, reads, others>>

\* lines 136-157: the identity check, then the registration of the handlers
Run ==
    /\ run = "created"
    /\ \/ run' = "failed" /\ UNCHANGED botID
       \/ \E id \in BotIDs : botID' = id /\ run' = "looping"
    /\ UNCHANGED <<pc, ev, channelName, calls, logs, msg, extractorLocals, gsc, err, opts, newSlack, reads, others>>

\* lines 160-163: the event loop ends with an error
RunEventLoopError ==
    /\ run = "looping"
    /\ pc = "idle"
    /\ run' = "exited"
    /\ UNCHANGED <<botID, pc, ev, channelName, calls, logs, msg, extractorLocals, gsc, err, opts, newSlack, reads, others>>

----
(* handleMessageEvent *)

\* the handler returns
Done == pc' = "idle"
\* Classify without the test for the bot's own messages
ClassifyOwnIncluded(e, self) ==
    IF e.kind = "other" THEN "not_api"
    ELSE IF e.kind # "message" THEN "not_message"
    ELSE IF e.message.subType # "" /\ e.message.subType # "bot_message" THEN "sub_type"
    ELSE "accepted"

\* Classify letting every sub-type through
ClassifyAnySubType(e, self) ==
    IF e.kind = "other" THEN "not_api"
    ELSE IF e.kind # "message" THEN "not_message"
    ELSE IF e.message.botID = self THEN "own_message"
    ELSE "accepted"

\* Classify testing for the bot's own messages under sub-type "bot_message" only
ClassifyOwnBotMessageOnly(e, self) ==
    IF e.kind = "other" THEN "not_api"
    ELSE IF e.kind # "message" THEN "not_message"
    ELSE IF e.message.subType # "" /\ e.message.subType # "bot_message" THEN "sub_type"
    ELSE IF e.message.subType = "bot_message" /\ e.message.botID = self THEN "own_message"
    ELSE "accepted"

\* lines 171-194: what the handler decides from the event alone
Classify(e, self) ==
    IF e.kind = "other" THEN "not_api"
    ELSE IF e.kind # "message" THEN "not_message"
    ELSE IF e.message.subType # "" /\ e.message.subType # "bot_message" THEN "sub_type"
    ELSE IF e.message.botID = self THEN "own_message"
    ELSE "accepted"

ClassifyLog(class) ==
    CASE class = "not_api" -> <<"event ignored as it is not an API event">>
      [] class = "not_message" -> <<"event ignored as it is not a message event">>
      [] class = "sub_type" -> <<"event ignored as the sub-type is not a new message">>
      [] class = "own_message" -> <<"event ignored as the message originated from our application">>
      [] OTHER -> <<>>

\* handleMessageEvent with the Ack moved behind the filters of lines 179-194
handleMessageEventAckAccepted(e) ==
    /\ run = "looping"
    /\ pc = "idle"
    /\ ev' = e
    /\ LET class == Classify(e, botID)
       IN /\ calls' = IF class = "accepted" THEN <<Call("Ack")>> ELSE <<>>
          /\ logs' = ClassifyLog(class)
          /\ pc' = IF class = "accepted" THEN "h_channel" ELSE "idle"
          /\ reads' = IF class \in {"own_message", "accepted"} THEN reads \cup {botID} ELSE reads
    /\ channelName' = ""
    /\ msg' = NoMessage
    /\ idx' = 0
    /\ pullRequest' = 0
    /\ organization' = <<>>
    /\ repository' = <<>>
    /\ gsc' = ZeroGSC
    /\ err' = nil
    /\ UNCHANGED <<run, botID, opts, newSlack, others>>

\* lines 169-194: a new invocation of the handler, up to the channel lookup
handleMessageEvent(e) ==
    /\ run = "looping"
    /\ pc = "idle"
    /\ ev' = e
    /\ LET class == Classify(e, botID)
       IN /\ calls' = IF class = "not_api" THEN <<>> ELSE <<Call("Ack")>>
          /\ logs' = ClassifyLog(class)
          /\ pc' = IF class = "accepted" THEN "h_channel" ELSE "idle"
          /\ reads' = IF class \in {"own_message", "accepted"} THEN reads \cup {botID} ELSE reads
    /\ channelName' = ""
    /\ msg' = NoMessage
    /\ idx' = 0
    /\ pullRequest' = 0
    /\ organization' = <<>>
    /\ repository' = <<>>
    /\ gsc' = ZeroGSC
    /\ err' = nil
    /\ UNCHANGED <<run, botID, opts, newSlack, others>>

\* GetConversationInfo tried a second time when the first lookup fails
GetConversationInfoRetry ==
    /\ pc = "h_channel"
    /\ calls' = Append(calls, Call("GetConversationInfo"))
    /\ \/ /\ logs' = Append(logs, "unable to get channel information")
          /\ pc' = IF \E i \in 1..Len(calls) : calls[i].op = "GetConversationInfo"
                     THEN "idle" ELSE "h_channel"
          /\ UNCHANGED channelName
       \/ /\ channelName' = ChannelNameOf(ev.message.channel)
          /\ pc' = IF ev.message.subType = "bot_message" THEN "b_entry" ELSE "h_user"
          /\ UNCHANGED logs
    /\ UNCHANGED <<run, botID, ev, msg, extractorLocals, gsc, err, opts, newSlack, reads, others>>

\* lines 197-205: the channel lookup and the switch on the sub-type
GetConversationInfo ==
    /\ pc = "h_channel"
    /\ calls' = Append(calls, Call("GetConversationInfo"))
    /\ \/ /\ logs' = Append(logs, "unable to get channel information")
          /\ Done
          /\ UNCHANGED channelName
       \/ /\ channelName' = ChannelNameOf(ev.message.channel)
          /\ pc' = IF ev.message.subType = "bot_message" THEN "b_entry" ELSE "h_user"
          /\ UNCHANGED logs
    /\ UNCHANGED <<run, botID, ev, msg, extractorLocals, gsc, err, opts, newSlack, reads, others>>

\* lines 210-220: the user lookup and the receipt line of a human message
GetUserInfo ==
    /\ pc = "h_user"
    /\ calls' = Append(calls, Call("GetUserInfo"))
    /\ \/ logs' = Append(logs, "unable to get user information")
       \/ logs' = Append(logs, "message received")
    /\ Done
    /\ UNCHANGED <<run, botID, ev, channelName, msg, extractorLocals, gsc, err, opts, newSlack, reads, others>>

----
(* handleBotMessage *)

\* handleBotMessage without the switch on the channel name
handleBotMessageAnyChannel ==
    /\ pc = "b_entry"
    /\ calls' = calls \o <<Call("handleBotMessage"),
                           Call("handleGatewaySchemaChangeEvent")>>
    /\ msg' = ev.message
    /\ pc' = "x_botid"
    /\ UNCHANGED logs
    /\ UNCHANGED <<run, botID, ev, channelName, extractorLocals, gsc, err, opts, newSlack, reads, others>>

\* lines 206, 225-228 and 239-242: the switch on the channel name
handleBotMessage ==
    /\ pc = "b_entry"
    /\ IF channelName = "gateway-schema-change-feed"
       THEN /\ calls' = calls \o <<Call("handleBotMessage"),
                                   Call("handleGatewaySchemaChangeEvent")>>
            /\ msg' = ev.message
            /\ pc' = "x_botid"
            /\ UNCHANGED logs
       ELSE /\ calls' = Append(calls, Call("handleBotMessage"))
            /\ logs' = Append(logs, "bot message received")
            /\ Done
            /\ UNCHANGED msg
    /\ UNCHANGED <<run, botID, ev, channelName, extractorLocals, gsc, err, opts, newSlack, reads, others>>

\* lines 228-231 and 206-208: the Extractor has returned to handleBotMessage
ExtractorReturned ==
    /\ pc = "x_done"
    /\ IF err # nil
       THEN /\ logs' = Append(logs, "unable to handle bot message")
            /\ Done
       ELSE /\ pc' = "b_pr"
            /\ UNCHANGED logs
    /\ UNCHANGED <<run, botID, ev, channelName, calls, msg, extractorLocals, gsc, err, opts, newSlack, reads, others>>

\* line 235-238 with github.go lines 75-85: the pull request is fetched; the
\* call fails, or returns a pull request with a body, or returns one whose
\* Body is nil, and then *pr.Body panics
PRDescription ==
    /\ pc = "b_pr"
    /\ calls' = Append(calls, CallWith("PRDescription", gsc))
    /\ \/ /\ logs' = Append(logs, "unable to handle bot message")
          /\ Done
          /\ UNCHANGED run
       \/ /\ Done
          /\ UNCHANGED <<run, logs>>
       \/ /\ pc' = "panic"
          /\ run' = "crashed"
          /\ UNCHANGED logs
    /\ UNCHANGED <<botID, ev, channelName, msg, extractorLocals, gsc, err, opts, newSlack, reads, others>>

----
(* The program *)

\* the Slack instance NewSlack returns (lines 125-130): botID is not set
Init ==
    /\ Constructed(ValidOptions)
    /\ pc = "idle"
    /\ ev = NoEvent
    /\ channelName = ""
    /\ calls = <<>>
    /\ logs = <<>>
    /\ msg = NoMessage
    /\ idx = 0
    /\ pullRequest = 0
    /\ organization = <<>>
    /\ repository = <<>>
    /\ gsc = ZeroGSC
    /\ err = nil

Next ==
    \/ Run
    \/ RunEventLoopError
    \/ \E e \in Events : handleMessageEvent(e)
    \/ GetConversationInfo
    \/ GetUserInfo
    \/ handleBotMessage
    \/ CheckBotID
    \/ CheckAttachments
    \/ CheckAuthor
    \/ ScanField
    \/ CheckComplete
    \/ ExtractorReturned
    \/ PRDescription

Spec == Init /\ [][Next]_vars

----
(* Construction: NewSlack applied to each Options value *)

\* lines 86-131
NewSlack ==
    /\ run = "new"
    /\ newSlack' = NewSlackResult(opts)
    /\ run' = IF NewSlackResult(opts).instance THEN "created" ELSE "refused"
    /\ UNCHANGED <<botID, pc, ev, channelName, calls, logs, msg, extractorLocals, gsc, err,
                   opts, reads, others>>

InitNewSlack ==
    /\ opts \in OptionsSet
    /\ newSlack = NotReturned
    /\ run = "new"
    /\ botID = ""
    /\ reads = {}
    /\ others = [h \in 1..MaxOthers |-> "none"]
    /\ pc = "idle"
    /\ ev = NoEvent
    /\ channelName = ""
    /\ calls = <<>>
    /\ logs = <<>>
    /\ msg = NoMessage
    /\ idx = 0
    /\ pullRequest = 0
    /\ organization = <<>>
    /\ repository = <<>>
    /\ gsc = ZeroGSC
    /\ err = nil

NextNewSlack == NewSlack

SpecNewSlack == InitNewSlack /\ [][NextNewSlack]_vars

----
(* Handler invocations running at the same time.  The invocation in progress *)
(* is modelled in full; an invocation beside it is reduced to what it does   *)
(* to the fields of Slack: it reads botID at line 190 and writes nothing.    *)

\* line 169: another invocation is entered while the event loop runs
OtherEnter(h) ==
    /\ run = "looping"
    /\ others[h] = "none"
    /\ others' = [others EXCEPT ![h] = "entered"]
    /\ UNCHANGED <<run, botID, pc, ev, channelName, calls, logs, msg, extractorLocals, gsc, err,
                   opts, newSlack, reads>>

\* line 190: it compares the message's bot id with s.botID
OtherRead(h) ==
    /\ run = "looping"
    /\ others[h] = "entered"
    /\ others' = [others EXCEPT ![h] = "read"]
    /\ reads' = reads \cup {botID}
    /\ UNCHANGED <<run, botID, pc, ev, channelName, calls, logs, msg, extractorLocals, gsc, err,
                   opts, newSlack>>

\* it returns, before line 190 (lines 174, 182, 187) or after it
OtherReturn(h) ==
    /\ run = "looping"
    /\ others[h] \in {"entered", "read"}
    /\ others' = [others EXCEPT ![h] = "none"]
    /\ UNCHANGED <<run, botID, pc, ev, channelName, calls, logs, msg, extractorLocals, gsc, err,
                   opts, newSlack, reads>>

\* the events of the runs with several invocations: no attachment, or the
\* one of a well-formed gateway schema change
ConcurrentEvents ==
    { e \in Events :
        e.kind = "message" =>
            \/ e.message.attachments = <<>>
            \/ /\ Len(e.message.attachments) = 1
               /\ e.message.attachments[1].fields
                    = <<Field(<<"R","e","f">>, Join(<<Refs, Pull, <<"5">>, Merge>>, "/")),
                        Field(<<"C","o","m","m","i","t">>,
                              Join(<<Join(<<Scheme, <<>>, Host, Kong, Koko, <<"c">>, Sha>>, "/"),
                                     Sha>>, "|"))>> }

NextConcurrent ==
    \/ Run
    \/ RunEventLoopError
    \/ \E e \in ConcurrentEvents : handleMessageEvent(e)
    \/ GetConversationInfo
    \/ GetUserInfo
    \/ handleBotMessage
    \/ CheckBotID
    \/ CheckAttachments
    \/ CheckAuthor
    \/ ScanField
    \/ CheckComplete
    \/ ExtractorReturned
    \/ PRDescription
    \/ \E h \in 1..MaxOthers : OtherEnter(h)
    \/ \E h \in 1..MaxOthers : OtherRead(h)
    \/ \E h \in 1..MaxOthers : OtherReturn(h)

SpecConcurrent == Init /\ [][NextConcurrent]_vars


----
(* Vocabulary of the properties: what a field says, read off its characters *)
(* without the Extractor's own operators                                   *)

\* the Extractor has been entered and has gone past its first step
PastBotID == pc \in {"x_attachments", "x_author", "x_scan", "x_done"}
PastAttachments == pc \in {"x_author", "x_scan", "x_done"}
PastAuthor == pc \in {"x_scan", "x_done"}

\* the fields of the single attachment
FieldsOf(m) == m.attachments[1].fields

\* title equals word up to letter case (word is in lower case)
TitleIs(title, word) ==
    /\ Len(title) = Len(word)
    /\ \A i \in 1..Len(word) :
          \/ title[i] = word[i]
          \/ \E j \in 1..26 : LowerChars[j] = word[i] /\ UpperChars[j] = title[i]

IsRef(f) == TitleIs(f.title, <<"r","e","f">>)
IsCommit(f) == TitleIs(f.title, <<"c","o","m","m","i","t">>)

SepPositions(s, sep) == { i \in 1..Len(s) : s[i] = sep }
TokenCount(s, sep) == Cardinality(SepPositions(s, sep)) + 1

\* position of the n-th separator of s (n >= 1)
NthSep(s, sep, n) ==
    CHOOSE p \in SepPositions(s, sep) :
        Cardinality({ q \in SepPositions(s, sep) : q < p }) = n - 1

\* the token at index j (counted from 0, as in the Go slice)
Token(s, sep, j) ==
    LET first == IF j = 0 THEN 1 ELSE NthSep(s, sep, j) + 1
        last == IF j = TokenCount(s, sep) - 1 THEN Len(s) ELSE NthSep(s, sep, j + 1) - 1
    IN SubSeq(s, first, last)

IsDigit(c) == c \in {"0","1","2","3","4","5","6","7","8","9"}

\* an optional sign followed by one or more decimal digits
IsDecimal(tok) ==
    LET body == IF Len(tok) > 0 /\ tok[1] \in {"+", "-"} THEN Tail(tok) ELSE tok
    IN Len(body) > 0 /\ \A i \in 1..Len(body) : IsDigit(body[i])

DigitValue(c) == CHOOSE d \in 0..9 : DigitChars[d + 1] = c

RECURSIVE DigitsValue(_)
DigitsValue(ds) ==
    IF Len(ds) = 0 THEN 0
    ELSE 10 * DigitsValue(SubSeq(ds, 1, Len(ds) - 1)) + DigitValue(ds[Len(ds)])

\* the number a decimal token denotes
DecimalValue(tok) ==
    IF tok[1] = "-" THEN -DigitsValue(Tail(tok))
    ELSE IF tok[1] = "+" THEN DigitsValue(Tail(tok))
    ELSE DigitsValue(tok)

----
(* Properties of the Extractor, checked under SpecExtract *)

\* C1: a message with an empty bot id fails with "bot ID is missing from
\* message event" at the first step, whatever its attachments are; no other
\* validation step is ever taken for it.
C1_MissingBotID ==
    (PastBotID /\ msg.botID = "") =>
        /\ pc = "x_done"
        /\ err = [text |-> "bot ID is missing from message event", arg |-> <<>>]
        /\ gsc = ZeroGSC
        /\ idx = 0

\* an empty bot id on a message whose single attachment has an author and fields
C1_Witness ==
    /\ pc = "x_done"
    /\ msg.botID = ""
    /\ Len(msg.attachments) = 1
    /\ msg.attachments[1].authorName # ""
    /\ Len(FieldsOf(msg)) = 2
    /\ err = MissingBotID

\* C2: with a bot id, no attachment fails with "attachments are missing", and
\* n >= 2 attachments fail with "too many attachments ...: n > 1" carrying n;
\* neither looks at an author or a field.
C2_AttachmentCount ==
    (PastAttachments /\ msg.botID # "" /\ Len(msg.attachments) # 1) =>
        /\ pc = "x_done"
        /\ gsc = ZeroGSC
        /\ idx = 0
        /\ Len(msg.attachments) = 0 =>
              err = [text |-> "attachments are missing from message event", arg |-> <<>>]
        /\ Len(msg.attachments) >= 2 =>
              /\ err.text = "too many attachments from message event: %d > 1"
              /\ IsDecimal(err.arg)
              /\ DecimalValue(err.arg) = Len(msg.attachments)

\* three attachments, the first one with an empty author and a malformed field
C2_Witness ==
    /\ pc = "x_done"
    /\ msg.botID # ""
    /\ Len(msg.attachments) = 3
    /\ msg.attachments[1].authorName = ""
    /\ Len(msg.attachments[1].fields) = 1
    /\ err = TooManyAttachments(3)

\* C3: with a bot id and one attachment, an empty author fails with "gateway
\* change event is missing author" before any field is examined, so no field
\* error is ever reported for it.
C3_MissingAuthor ==
    (PastAuthor /\ msg.botID # "" /\ Len(msg.attachments) = 1
        /\ msg.attachments[1].authorName = "") =>
        /\ pc = "x_done"
        /\ err = [text |-> "gateway change event is missing author", arg |-> <<>>]
        /\ gsc = ZeroGSC
        /\ idx = 0

\* an empty author on an attachment whose first field is a ref with two tokens
C3_Witness ==
    /\ pc = "x_done"
    /\ msg.botID # ""
    /\ Len(msg.attachments) = 1
    /\ msg.attachments[1].authorName = ""
    /\ Len(FieldsOf(msg)) >= 1
    /\ IsRef(FieldsOf(msg)[1])
    /\ TokenCount(FieldsOf(msg)[1].value, "/") = 2
    /\ err = MissingAuthor

\* C4: every examined ref field with k < 3 slash tokens ends the scan there
\* with "not enough tokens in ref value ...: k < 3", and every examined ref
\* field with k >= 3 whose token 2 is not a decimal integer ends the scan
\* there with "unable to convert pull request to number" naming that token.
C4_RefErrors ==
    (PastAuthor /\ idx >= 1) =>
        \A i \in 1..idx :
            LET f == FieldsOf(msg)[i]
                k == TokenCount(f.value, "/")
            IN IsRef(f) =>
                 /\ k < 3 =>
                      /\ pc = "x_done"
                      /\ idx = i
                      /\ gsc = ZeroGSC
                      /\ err.text = "not enough tokens in ref value to parse pull request: %d < 3"
                      /\ IsDecimal(err.arg)
                      /\ DecimalValue(err.arg) = k
                 /\ (k >= 3 /\ ~IsDecimal(Token(f.value, "/", 2))) =>
                      /\ pc = "x_done"
                      /\ idx = i
                      /\ gsc = ZeroGSC
                      /\ err = [text |-> "unable to convert pull request to number: %s",
                                arg |-> Token(f.value, "/", 2)]

\* a ref whose token 2 is not a number, reached as the second field and
\* followed by a field that is never examined
C4_Witness ==
    /\ pc = "x_done"
    /\ Len(msg.attachments) = 1
    /\ idx = 2
    /\ Len(FieldsOf(msg)) = 3
    /\ IsRef(FieldsOf(msg)[2])
    /\ err = PullRequestParseError(<<"5","x">>)

\* C5: every examined commit field whose value does not have exactly two
\* "|" tokens ends the scan there with "invalid commit value format"; one
\* whose first part has k < 5 slash tokens ends it with "not enough tokens in
\* commit value ...: k < 5"; otherwise, right after the field, organization
\* and repository are tokens 3 and 4 of the first part.
C5_CommitField ==
    (PastAuthor /\ idx >= 1) =>
        \A i \in 1..idx :
            LET f == FieldsOf(msg)[i]
                parts == TokenCount(f.value, "|")
                first == Token(f.value, "|", 0)
                k == TokenCount(first, "/")
            IN IsCommit(f) =>
                 /\ parts # 2 =>
                      /\ pc = "x_done"
                      /\ idx = i
                      /\ gsc = ZeroGSC
                      /\ err = [text |-> "invalid commit value format: %s", arg |-> f.value]
                 /\ (parts = 2 /\ k < 5) =>
                      /\ pc = "x_done"
                      /\ idx = i
                      /\ gsc = ZeroGSC
                      /\ err.text = "not enough tokens in commit value to parse repository: %d < 5"
                      /\ IsDecimal(err.arg)
                      /\ DecimalValue(err.arg) = k
                 /\ (parts = 2 /\ k >= 5 /\ idx = i) =>
                      /\ organization = Token(first, "/", 3)
                      /\ repository = Token(first, "/", 4)
                      /\ err \notin {CommitFormatError(f.value), CommitTokenCountError(k)}

\* a commit field with two "|" separators, reached as the second field
C5_Witness ==
    /\ pc = "x_done"
    /\ Len(msg.attachments) = 1
    /\ idx = 2
    /\ IsCommit(FieldsOf(msg)[2])
    /\ TokenCount(FieldsOf(msg)[2].value, "|") = 3
    /\ err = CommitFormatError(FieldsOf(msg)[2].value)

\* C6: when every field has been scanned without an error, the step that
\* follows reports, in this order: no pull request (in particular when no
\* field is titled ref) as "pull request number was not present", even with
\* the organization empty too; a pull request with an empty organization as
\* "organization was not present", even with the repository empty too; a
\* pull request and an organization with an empty repository as "repository
\* was not present".
C6_CompletenessOrder ==
    [][ (pc = "x_scan" /\ idx = Len(FieldsOf(msg))) =>
          /\ pc' = "x_done"
          /\ (\A i \in 1..Len(FieldsOf(msg)) : ~IsRef(FieldsOf(msg)[i])) =>
                /\ err' = [text |-> "pull request number was not present in message event",
                           arg |-> <<>>]
                /\ gsc' = ZeroGSC
          /\ (pullRequest # MinInt64 /\ organization = <<>>) =>
                /\ err' = [text |-> "organization was not present in message event",
                           arg |-> <<>>]
                /\ gsc' = ZeroGSC
          /\ (pullRequest # MinInt64 /\ organization # <<>> /\ repository = <<>>) =>
                /\ err' = [text |-> "repository was not present in message event",
                           arg |-> <<>>]
                /\ gsc' = ZeroGSC
      ]_vars

\* a ref but no commit field: organization and repository are both empty
\* and the organization is the one reported
C6_Witness ==
    /\ pc = "x_done"
    /\ Len(msg.attachments) = 1
    /\ idx = Len(FieldsOf(msg))
    /\ pullRequest = 12
    /\ organization = <<>>
    /\ repository = <<>>
    /\ err = MissingOrganization

\* the positions of the fields of m's attachment whose title is ref / commit
RefPositions(m) == { i \in 1..Len(FieldsOf(m)) : IsRef(FieldsOf(m)[i]) }
CommitPositions(m) == { i \in 1..Len(FieldsOf(m)) : IsCommit(FieldsOf(m)[i]) }

\* a ref value "a/b/N/..." with N a decimal integer of the machine width
WellFormedRef(f) ==
    /\ TokenCount(f.value, "/") >= 3
    /\ IsDecimal(Token(f.value, "/", 2))
    /\ DecimalValue(Token(f.value, "/", 2)) \in MinInt64..MaxInt64

\* a commit value "s0/s1/s2/ORG/REPO/...|x" with ORG and REPO not empty
WellFormedCommit(f) ==
    /\ TokenCount(f.value, "|") = 2
    /\ TokenCount(Token(f.value, "|", 0), "/") >= 5
    /\ Token(Token(f.value, "|", 0), "/", 3) # <<>>
    /\ Token(Token(f.value, "|", 0), "/", 4) # <<>>

\* C7: a message with a bot id, one attachment with an author, exactly one
\* ref field and exactly one commit field, both well-formed, in any order and
\* among any fields of other titles, is extracted without error to
\* {organization: ORG, repository: REPO, pullRequest: N}.
C7_EndToEnd ==
    (/\ pc = "x_done"
     /\ msg.botID # ""
     /\ Len(msg.attachments) = 1
     /\ msg.attachments[1].authorName # ""
     /\ Cardinality(RefPositions(msg)) = 1
     /\ Cardinality(CommitPositions(msg)) = 1
     /\ \A i \in RefPositions(msg) : WellFormedRef(FieldsOf(msg)[i])
     /\ \A i \in CommitPositions(msg) : WellFormedCommit(FieldsOf(msg)[i])) =>
        LET ref == FieldsOf(msg)[CHOOSE i \in RefPositions(msg) : TRUE]
            commit == FieldsOf(msg)[CHOOSE i \in CommitPositions(msg) : TRUE]
            first == Token(commit.value, "|", 0)
        IN /\ err = nil
           /\ gsc = [organization |-> Token(first, "/", 3),
                     pullRequest |-> DecimalValue(Token(ref.value, "/", 2)),
                     repository |-> Token(first, "/", 4)]

\* C8: the Extractor returns either no error with a record whose organization
\* and repository are not empty and whose pullRequest is the number of a ref
\* field, or an error with the zero record; never an error with a record
\* that has a field set.
C8_ResultShape ==
    pc = "x_done" =>
        \/ /\ err = nil
           /\ Len(msg.attachments) = 1
           /\ gsc.organization # <<>>
           /\ gsc.repository # <<>>
           /\ \E i \in RefPositions(msg) :
                 /\ WellFormedRef(FieldsOf(msg)[i])
                 /\ gsc.pullRequest = DecimalValue(Token(FieldsOf(msg)[i].value, "/", 2))
        \/ /\ err # nil
           /\ gsc = [organization |-> <<>>, pullRequest |-> 0, repository |-> <<>>]

\* the third field fails after a ref and a commit have set all three locals
C8_Witness ==
    /\ pc = "x_done"
    /\ err # nil
    /\ idx = 3
    /\ pullRequest = 5
    /\ organization = Kong
    /\ repository = Koko
    /\ gsc = ZeroGSC

----
(* Properties of the dispatcher, checked under Spec *)

\* only the acknowledgement has been issued for the current event: no
\* lookup, no handler, no Extractor, no code-host call
OnlyAcked ==
    /\ \A i \in 1..Len(calls) : calls[i].op = "Ack"
    /\ msg = NoMessage
    /\ channelName = ""

\* C9: a message event whose bot id is the bot id Run stored is dropped: the
\* handler returns without a channel lookup, a user lookup, handleBotMessage,
\* the Extractor or PRDescription.
C9_OwnMessageDropped ==
    (ev.kind = "message" /\ ev.message.botID = botID) =>
        /\ pc = "idle"
        /\ OnlyAcked

\* a well-formed bot message of the feed channel, sent by the bot itself
C9_Witness ==
    /\ ev.kind = "message"
    /\ ev.message.subType = "bot_message"
    /\ botID = "B0"
    /\ ev.message.botID = "B0"
    /\ ev.message.channel = "C1"
    /\ Len(ev.message.attachments) = 1
    /\ Len(ev.message.attachments[1].fields) = 2
    /\ pc = "idle"
    /\ calls = <<Call("Ack")>>
    /\ logs = <<"event ignored as the message originated from our application">>

\* C10: a message event whose sub-type is neither empty nor "bot_message" is
\* dropped whatever its bot id and channel: no channel lookup, no user
\* lookup, no handleBotMessage, no Extractor, no PRDescription.
C10_UnsupportedSubTypeDropped ==
    (ev.kind = "message" /\ ev.message.subType \notin {"", "bot_message"}) =>
        /\ pc = "idle"
        /\ OnlyAcked

\* a channel_join event of the feed channel from another bot
C10_Witness ==
    /\ ev.kind = "message"
    /\ ev.message.subType = "channel_join"
    /\ botID = "B0"
    /\ ev.message.botID = "B1"
    /\ ev.message.channel = "C1"
    /\ pc = "idle"
    /\ calls = <<Call("Ack")>>
    /\ logs = <<"event ignored as the sub-type is not a new message">>

----
(* C11 - C13: what the Dispatcher invokes for one event *)

\* the positions of calls at which operation op was invoked
CallsOf(op) == { i \in 1..Len(calls) : calls[i].op = op }

\* the collaborator operations other than the acknowledgement
Collaborators ==
    {"GetConversationInfo", "GetUserInfo", "handleBotMessage",
     "handleGatewaySchemaChangeEvent", "PRDescription"}

\* the event was acknowledged exactly once, before every other operation
AckedOnceFirst ==
    /\ Cardinality(CallsOf("Ack")) = 1
    /\ calls[1].op = "Ack"
    /\ \A i \in 2..Len(calls) : calls[i].op \in Collaborators

\* C11 as stated: every event delivered to handleMessageEvent, whatever it
\* is and however its handling ends, is acknowledged exactly once, and the
\* acknowledgement precedes every collaborator call.
C11_EveryEventAcked ==
    ev.kind # "none" => AckedOnceFirst

\* C11: every delivered event whose data is an Events-API event is
\* acknowledged exactly once, however its handling ends (not a message,
\* unsupported sub-type, own message, lookup failure, extraction failure,
\* success), and the acknowledgement precedes every collaborator call; an
\* event whose data is not an Events-API event is dropped with a log line
\* only, without acknowledgement and without any collaborator call.
C11_ApiEventAckedOnceFirst ==
    /\ ev.kind \in {"api", "message"} => AckedOnceFirst
    /\ ev.kind = "other" =>
          /\ calls = <<>>
          /\ pc = "idle"
          /\ logs = <<"event ignored as it is not an API event">>

\* a gateway schema change handled to the end: Ack, channel lookup,
\* handleBotMessage, Extractor, PRDescription
C11_Witness ==
    /\ ev.kind = "message"
    /\ pc = "idle"
    /\ Len(calls) = 5
    /\ calls[1] = Call("Ack")
    /\ calls[2].op = "GetConversationInfo"
    /\ calls[5].op = "PRDescription"

\* C12: the Extractor is invoked for an event only if it is a message of
\* sub-type "bot_message" whose bot id differs from the stored bot id, whose
\* channel lookup succeeded and whose channel is named exactly
\* "gateway-schema-change-feed", and then once; PRDescription is called only
\* after the Extractor returned without error for that event, at most once,
\* with exactly the organization, repository and pull request of the record
\* returned; a bot message of any other channel invokes neither.
C12_ExtractorAndCodeHostGuarded ==
    /\ CallsOf("handleGatewaySchemaChangeEvent") # {} =>
          /\ Cardinality(CallsOf("handleGatewaySchemaChangeEvent")) = 1
          /\ ev.kind = "message"
          /\ ev.message.subType = "bot_message"
          /\ ev.message.botID # botID
          /\ \E i \in CallsOf("GetConversationInfo") :
                \A j \in CallsOf("handleGatewaySchemaChangeEvent") : i < j
          /\ channelName = "gateway-schema-change-feed"
          /\ ChannelNameOf(ev.message.channel) = "gateway-schema-change-feed"
          /\ msg = ev.message
    /\ CallsOf("PRDescription") # {} =>
          /\ Cardinality(CallsOf("PRDescription")) = 1
          /\ \E i \in CallsOf("handleGatewaySchemaChangeEvent") :
                \A j \in CallsOf("PRDescription") : i < j
          /\ err = nil
          /\ \A j \in CallsOf("PRDescription") :
                /\ calls[j].args.organization = gsc.organization
                /\ calls[j].args.repository = gsc.repository
                /\ calls[j].args.pullRequest = gsc.pullRequest
          /\ gsc.organization # <<>>
          /\ gsc.repository # <<>>
    /\ (/\ ev.kind = "message"
        /\ ev.message.subType = "bot_message"
        /\ ChannelNameOf(ev.message.channel) # "gateway-schema-change-feed") =>
          /\ CallsOf("handleGatewaySchemaChangeEvent") = {}
          /\ CallsOf("PRDescription") = {}
          /\ msg = NoMessage
    /\ pc \in {"x_botid", "x_attachments", "x_author", "x_scan", "x_done"} =>
          CallsOf("handleGatewaySchemaChangeEvent") # {}
    /\ pc = "b_pr" => (err = nil /\ CallsOf("handleGatewaySchemaChangeEvent") # {})

\* PRDescription was called for pull request 5 of k/t, which the Extractor
\* returned for a bot message of the feed channel
C12_Witness ==
    /\ ev.kind = "message"
    /\ ev.message.subType = "bot_message"
    /\ ev.message.channel = "C1"
    /\ pc = "idle"
    /\ CallsOf("PRDescription") = {5}
    /\ calls[5].args = [organization |-> Kong, pullRequest |-> 5, repository |-> Koko]
    /\ gsc = calls[5].args

\* the log lines of the four failures of one event
FailureLines ==
    {"unable to get channel information", "unable to get user information",
     "unable to handle bot message"}

\* a step in which the handling of the current event fails
FailureStep ==
    /\ pc # "idle"
    /\ Len(logs') = Len(logs) + 1
    /\ logs'[Len(logs')] \in FailureLines

\* a step in which the handler is entered for the next event
HandlerEntered ==
    /\ pc = "idle"
    /\ run = "looping"
    /\ run' = "looping"

\* C13: a failure of one event (channel lookup, user lookup, extraction,
\* pull request lookup) ends the handling of that event and leaves the bot
\* id and the rest of the Slack instance as they were; the handler then
\* starts the next event from scratch, with nothing of an earlier event left
\* in what it works on; and within one event the channel lookup, the user
\* lookup and the pull request lookup are each attempted at most once.
C13_IsolatedRetryFree ==
    /\ [](\A op \in {"GetConversationInfo", "GetUserInfo", "PRDescription"} :
             Cardinality(CallsOf(op)) <= 1)
    /\ [][FailureStep =>
            /\ pc' = "idle"
            /\ botID' = botID
            /\ run' = run
            /\ newSlack' = newSlack
            /\ opts' = opts]_vars
    /\ [][HandlerEntered =>
            /\ botID' = botID
            /\ channelName' = ""
            /\ msg' = NoMessage
            /\ idx' = 0
            /\ pullRequest' = 0
            /\ organization' = <<>>
            /\ repository' = <<>>
            /\ gsc' = ZeroGSC
            /\ err' = nil
            /\ Len(calls') <= 1
            /\ Len(logs') <= 1
            /\ pc' \in {"idle", "h_channel"}
            /\ (pc' = "h_channel") =
                 (/\ ev'.kind = "message"
                  /\ ev'.message.subType \in {"", "bot_message"}
                  /\ ev'.message.botID # botID)]_vars

\* the pull request lookup of a gateway schema change has failed: the event
\* is over, the event loop runs on with the bot id Run stored
C13_Witness ==
    /\ pc = "idle"
    /\ run = "looping"
    /\ botID = "B0"
    /\ Len(calls) = 5
    /\ calls[5].op = "PRDescription"
    /\ logs = <<"gateway change event received", "unable to handle bot message">>

----
(* C14: NewSlack *)

\* a token is set when it has a character that is not white space
IsSet(token) == \E i \in 1..Len(token) : token[i] \notin {" ", "\t", "\n"}

StartsWith(token, prefix) ==
    Len(token) >= Len(prefix) /\ SubSeq(token, 1, Len(prefix)) = prefix

\* the six checks in their order: whether o passes, and the error otherwise
Checks(o) ==
    << [ok |-> IsSet(o.AppToken), text |-> "slack application token is not set"],
       [ok |-> StartsWith(o.AppToken, <<"x", "a", "p", "p", "-">>),
        text |-> "slack application token must have the prefix 'xapp-'"],
       [ok |-> IsSet(o.BotToken), text |-> "slack bot token is not set"],
       [ok |-> StartsWith(o.BotToken, <<"x", "o", "x", "b", "-">>),
        text |-> "slack bot token must have the prefix 'xoxb-'"],
       [ok |-> o.GitHubClient, text |-> "client for GitHub is not set"],
       [ok |-> o.Logger, text |-> "logger is not set"] >>

FailedChecks(o) == { i \in 1..6 : ~Checks(o)[i].ok }

\* C14: NewSlack checks, in this order, application token set, application
\* token prefix "xapp-", bot token set, bot token prefix "xoxb-", GitHub
\* client set, logger set; it returns the error of the first check that
\* fails together with a nil instance, and a non-nil instance with no error
\* exactly when all six pass.
C14_ValidationOrder ==
    run # "new" =>
        IF FailedChecks(opts) = {}
          THEN /\ newSlack.instance
               /\ newSlack.err = "nil"
               /\ run # "refused"
          ELSE /\ ~newSlack.instance
               /\ \E i \in FailedChecks(opts) :
                     /\ \A j \in FailedChecks(opts) : i <= j
                     /\ newSlack.err = Checks(opts)[i].text
               /\ run = "refused"

\* a good application token, a bot token with the wrong prefix, and neither
\* GitHub client nor logger: the bot token's prefix is what is reported
C14_Witness ==
    /\ run = "refused"
    /\ opts.AppToken = <<"x", "a", "p", "p", "-", "1">>
    /\ opts.BotToken = <<"x", "a", "p", "p", "-">>
    /\ ~opts.GitHubClient
    /\ ~opts.Logger
    /\ newSlack = [instance |-> FALSE, err |-> "slack bot token must have the prefix 'xoxb-'"]

----
(* C15, C16: repeated fields and the unset pull request, under SpecExtract *)

\* a commit value the commit case takes apart without error
ParsesCommit(f) ==
    /\ TokenCount(f.value, "|") = 2
    /\ TokenCount(Token(f.value, "|", 0), "/") >= 5

\* the last position of a non-empty set of positions
LastOf(positions) == CHOOSE i \in positions : \A j \in positions : j <= i

\* the message passes the bot id, attachment and author steps, and every
\* ref and commit field of its attachment scans without error
ScansWithoutError(m) ==
    /\ m.botID # ""
    /\ Len(m.attachments) = 1
    /\ m.attachments[1].authorName # ""
    /\ \A i \in RefPositions(m) : WellFormedRef(FieldsOf(m)[i])
    /\ \A i \in CommitPositions(m) : ParsesCommit(FieldsOf(m)[i])

\* C15: with several ref fields and several commit fields, all of them
\* scanning without error, the pull request the Extractor ends with is that
\* of the last ref field and the organization and repository are those of
\* the last commit field, whatever earlier fields of the same title said;
\* a record returned without error carries exactly these three values; and
\* a last commit field with an empty organization or repository token makes
\* the extraction fail even when an earlier commit field was complete.
C15_LastWins ==
    (/\ pc = "x_done"
     /\ ScansWithoutError(msg)
     /\ RefPositions(msg) # {}
     /\ CommitPositions(msg) # {}) =>
        LET ref == FieldsOf(msg)[LastOf(RefPositions(msg))]
            commit == FieldsOf(msg)[LastOf(CommitPositions(msg))]
            first == Token(commit.value, "|", 0)
            N == DecimalValue(Token(ref.value, "/", 2))
            ORG == Token(first, "/", 3)
            REPO == Token(first, "/", 4)
        IN /\ pullRequest = N
           /\ organization = ORG
           /\ repository = REPO
           /\ err = nil => gsc = [organization |-> ORG, pullRequest |-> N, repository |-> REPO]
           /\ (ORG = <<>> \/ REPO = <<>>) => (err # nil /\ gsc = ZeroGSC)

\* a complete commit field followed by one with an empty repository token,
\* after a ref field: the extraction fails for the missing repository
C15_Witness ==
    /\ pc = "x_done"
    /\ ScansWithoutError(msg)
    /\ Len(FieldsOf(msg)) = 3
    /\ RefPositions(msg) = {1}
    /\ CommitPositions(msg) = {2, 3}
    /\ WellFormedCommit(FieldsOf(msg)[2])
    /\ Token(Token(FieldsOf(msg)[3].value, "|", 0), "/", 4) = <<>>
    /\ err = MissingRepository

\* C16: for a message that passes the first three steps and whose fields all
\* scan without error, the Extractor fails with "pull request number was not
\* present in message event" exactly when the attachment has no field titled
\* ref: whatever integer of the machine width a ref token denotes, the
\* minimum and the negative ones included, the pull request counts as set.
C16_UnsetOnlyWithoutRef ==
    (pc = "x_done" /\ ScansWithoutError(msg)) =>
        ((err = MissingPullRequest) <=> (RefPositions(msg) = {}))

----
(* C17: messages without a sub-type *)

OwnMessageLine == "event ignored as the message originated from our application"

\* the event is a message without a sub-type
HumanMessage == ev.kind = "message" /\ ev.message.subType = ""

\* the handler got as far as the channel lookup and, when that succeeded,
\* the user lookup, which ended in its error line or in the receipt line
LookedUp ==
    /\ pc = "idle" => CallsOf("GetConversationInfo") # {}
    /\ (pc = "idle" /\ channelName # "") => CallsOf("GetUserInfo") # {}
    /\ CallsOf("GetUserInfo") # {} =>
          /\ channelName # ""
          /\ pc = "idle"
          /\ logs \in {<<"unable to get user information">>, <<"message received">>}

\* neither handleBotMessage, the Extractor nor PRDescription was invoked
NoBotHandling ==
    /\ CallsOf("handleBotMessage") = {}
    /\ CallsOf("handleGatewaySchemaChangeEvent") = {}
    /\ CallsOf("PRDescription") = {}
    /\ msg = NoMessage

\* C17 as stated: a message without a sub-type is never dropped as the bot's
\* own, whatever its bot id and the stored bot id are; when its channel
\* lookup succeeds the user lookup follows and, if that succeeds, the
\* receipt line; the Extractor and PRDescription are never invoked for it.
C17_HumanNeverSelfDropped ==
    HumanMessage =>
        /\ OwnMessageLine \notin { logs[i] : i \in 1..Len(logs) }
        /\ LookedUp
        /\ NoBotHandling

\* C17: the test for the bot's own messages applies to every message that
\* passes the sub-type filter: a message without a sub-type is dropped as the
\* bot's own exactly when its bot id equals the stored bot id (both may be
\* empty), and then nothing but the Ack is invoked; otherwise, when its
\* channel lookup succeeds the user lookup follows and, if that succeeds,
\* the receipt line; the Extractor and PRDescription are never invoked for
\* it.
C17_HumanDroppedIffOwn ==
    HumanMessage =>
        /\ ev.message.botID = botID =>
              /\ pc = "idle"
              /\ logs = <<OwnMessageLine>>
              /\ OnlyAcked
        /\ ev.message.botID # botID =>
              /\ OwnMessageLine \notin { logs[i] : i \in 1..Len(logs) }
              /\ LookedUp
        /\ NoBotHandling

\* a message without a sub-type and without a bot id, received by the bot
\* B0, ends with the receipt line after both lookups
C17_Witness ==
    /\ HumanMessage
    /\ botID = "B0"
    /\ ev.message.botID = ""
    /\ pc = "idle"
    /\ Len(calls) = 3
    /\ calls[2].op = "GetConversationInfo"
    /\ calls[3].op = "GetUserInfo"
    /\ logs = <<"message received">>

----
(* C18: the bot id, under SpecConcurrent *)

\* no handler invocation has been entered and no event has been handled
NothingHandled ==
    /\ ev = NoEvent
    /\ pc = "idle"
    /\ calls = <<>>
    /\ logs = <<>>
    /\ reads = {}
    /\ \A h \in 1..MaxOthers : others[h] = "none"

\* C18: the bot id is written by Run alone, in the one step that follows the
\* identity check and precedes the registration of the message handler and
\* the event loop, hence before any handler invocation exists; no step of a
\* handler invocation changes it; when the identity check fails Run returns
\* for good and no event is ever handled; and so, however the steps of the
\* handler invocations running at the same time interleave, every value read
\* from the bot id is the one value Run stored.
C18_BotIDWrittenOnceBeforeReaders ==
    /\ [][botID' # botID => (run = "created" /\ run' = "looping" /\ NothingHandled)]_vars
    /\ [][run # "created" => (botID' = botID /\ run' # "created")]_vars
    /\ [][run = "failed" => run' = "failed"]_vars
    /\ [](run \in {"created", "failed"} => (NothingHandled /\ botID = ""))
    /\ [](reads \subseteq {botID})

\* the invocation in progress and one beside it have both read the bot id
\* B0 that Run stored
C18_Witness ==
    /\ run = "looping"
    /\ botID = "B0"
    /\ pc = "h_channel"
    /\ others[1] = "read"
    /\ reads = {"B0"}

----
(* C19: the outcomes of the pull request lookup *)

\* C19: whatever the pull request lookup yields (an error, a pull request
\* with a description, a pull request without a description body),
\* PRDescription returns and handleBotMessage returns to the handler, which
\* returns: once PRDescription has been called the handler is back at idle
\* and the event loop has not been taken down by it.
C19_EveryOutcomeReturns ==
    CallsOf("PRDescription") # {} =>
        /\ pc = "idle"
        /\ run \in {"looping", "exited"}
        /\ logs \in {<<"gateway change event received">>,
                     <<"gateway change event received", "unable to handle bot message">>}

====
